---- MODULE Spec2Model ----
(***************************************************************************)
(* Inventory ledger of the pharmacy backend: medicines, batches, the       *)
(* transaction log and the alerts, with the request handlers that write    *)
(* them (routers/inventory.py, routers/waste.py, routers/alerts.py).       *)
(* Row ids are positions in the table sequences (autoincrement keys, no    *)
(* handler deletes a row).  Dates are whole days.                          *)
(***************************************************************************)
EXTENDS Integers, Sequences, FiniteSets, TLC

VARIABLES medicines, batches, transactions, alerts, today, response,
          forecasts, sessions

vars ==
    <<medicines, batches, transactions, alerts, today, response, forecasts,
      sessions>>

(***************************************************************************)
(* Bounds of the model                                                     *)
(***************************************************************************)
NumSKUs == 2
NumBatchNos == 1
MaxBatches == 2
MaxTxns == 2
MaxAlerts == 2
MaxDay == 1
NumUsers == 1

SKUs == 1..NumSKUs
BatchNos == 1..NumBatchNos
\* current_user.id of the authenticated callers
Users == 1..NumUsers

(***************************************************************************)
(* Program constants                                                       *)
(***************************************************************************)
\* Optional[int] = None; `if transaction.batch_id:` also treats 0 as absent
NoId == 0
\* pd.to_datetime(..., errors='coerce') gives NaT for an unparseable date
NaT == -1
LOW_STOCK_THRESHOLD == 20
HIGH_SEVERITY_STOCK == 10
HIGH_SEVERITY_DAYS == 30
EXPIRY_ALERT_DAYS == <<30, 60, 90>>

TransactionType ==
    {"in", "out", "adjustment", "return", "expired", "damaged", "recalled"}

AlertType == {"low_stock", "stock_out", "expiry_warning", "delayed_delivery"}

(***************************************************************************)
(* Inputs of the requests                                                  *)
(***************************************************************************)
RowQuantities == {0, 15}
TxnQuantities == {-20, 10}
ExpiryDates == {0, 45}
TxnTypes == {"in", "out"}

\* parsed rows of an uploaded file: valid rows, a negative quantity, an
\* unparseable expiry date, a non-numeric purchase price
Rows ==
    [sku : SKUs, batch_no : BatchNos, quantity : RowQuantities,
     expiry_date : ExpiryDates, purchase_price_ok : {TRUE}]
    \cup
    [sku : {1}, batch_no : {1}, quantity : {-5},
     expiry_date : {45}, purchase_price_ok : {TRUE}]
    \cup
    [sku : {1}, batch_no : {1}, quantity : {15},
     expiry_date : {NaT}, purchase_price_ok : {TRUE}]
    \cup
    [sku : SKUs, batch_no : BatchNos, quantity : {15},
     expiry_date : {45}, purchase_price_ok : {FALSE}]

\* the row a two-row file combines with any other row
PairRows ==
    {[sku |-> 1, batch_no |-> 1, quantity |-> 15, expiry_date |-> 45,
      purchase_price_ok |-> TRUE]}

\* uploaded files: one row, the same row twice, a row after a valid row
Files ==
    {<<r>> : r \in Rows} \cup {<<r, r>> : r \in Rows}
    \cup {<<g, r>> : r \in Rows, g \in PairRows}

(***************************************************************************)
(* Rows of the tables                                                      *)
(***************************************************************************)
Medicine(sku) == [sku |-> sku, is_active |-> TRUE]

Batch(medicine_id, batch_number, quantity, expiry_date, is_expired) ==
    [medicine_id |-> medicine_id, batch_number |-> batch_number,
     quantity |-> quantity, expiry_date |-> expiry_date,
     is_expired |-> is_expired, is_damaged |-> FALSE,
     is_recalled |-> FALSE, is_returned |-> FALSE]

InventoryTransaction(medicine_id, batch_id, transaction_type, quantity) ==
    [medicine_id |-> medicine_id, batch_id |-> batch_id,
     transaction_type |-> transaction_type, quantity |-> quantity]

Alert(alert_type, medicine_id, batch_id, severity) ==
    [alert_type |-> alert_type, medicine_id |-> medicine_id,
     batch_id |-> batch_id, severity |-> severity, is_acknowledged |-> FALSE,
     acknowledged_by |-> NoId, acknowledged_at |-> NaT]

(***************************************************************************)
(* Queries                                                                 *)
(***************************************************************************)
\* db.query(...).filter(...).first(): the id of the first matching row
first(ids) ==
    IF ids = {} THEN NoId ELSE CHOOSE i \in ids : \A j \in ids : i <= j

medicine_by_sku(meds, sku) == first({i \in DOMAIN meds : meds[i].sku = sku})

batch_by_number(bs, medicine_id, batch_no) ==
    first({i \in DOMAIN bs : bs[i].medicine_id = medicine_id
                             /\ bs[i].batch_number = batch_no})

\* the session flushes pending rows before a query runs
session_autoflush == TRUE

\* the rows a query of the session sees: pending rows only after a flush
visible(committed, pending, flush) ==
    IF flush THEN committed \o pending ELSE committed

open_alert(als, alert_type, medicine_id) ==
    first({i \in DOMAIN als : als[i].medicine_id = medicine_id
                              /\ als[i].alert_type = alert_type
                              /\ ~als[i].is_acknowledged})

open_batch_alert(als, alert_type, batch_id) ==
    first({i \in DOMAIN als : als[i].batch_id = batch_id
                              /\ als[i].alert_type = alert_type
                              /\ ~als[i].is_acknowledged})

\* sum([b.quantity for b in medicine.batches if not b.is_expired])
RECURSIVE total_stock_from(_, _, _)
total_stock_from(bs, medicine_id, i) ==
    IF i > Len(bs) THEN 0
    ELSE (IF bs[i].medicine_id = medicine_id /\ ~bs[i].is_expired
          THEN bs[i].quantity ELSE 0)
         + total_stock_from(bs, medicine_id, i + 1)

total_stock(bs, medicine_id) == total_stock_from(bs, medicine_id, 1)

\* func.sum(Batch.quantity) ... filter(Batch.quantity > 0, Batch.is_expired == False)
RECURSIVE total_quantity_from(_, _, _)
total_quantity_from(bs, medicine_id, i) ==
    IF i > Len(bs) THEN 0
    ELSE (IF bs[i].medicine_id = medicine_id /\ bs[i].quantity > 0
             /\ ~bs[i].is_expired
          THEN bs[i].quantity ELSE 0)
         + total_quantity_from(bs, medicine_id, i + 1)

total_quantity(bs, medicine_id) == total_quantity_from(bs, medicine_id, 1)

\* sum(batch.quantity for batch in medicine.batches if not batch.is_expired)
current_stock(bs, medicine_id) == total_stock_from(bs, medicine_id, 1)

\* GET /stock-levels: total_quantity of every active medicine
get_stock_levels(meds, bs) ==
    [m \in {i \in DOMAIN meds : meds[i].is_active} |->
        total_quantity_from(bs, m, 1)]

\* the batches of a medicine the chatbot answers from
active_batches(bs, medicine_id) ==
    {i \in DOMAIN bs : /\ bs[i].medicine_id = medicine_id
                       /\ ~bs[i].is_expired /\ bs[i].quantity > 0}

\* .order_by(Batch.expiry_date).all(): the lists the database may return, rows
\* of equal expiry_date coming in any order
order_by_expiry_date(bs, ids) ==
    {list \in [1..Cardinality(ids) -> ids] :
        /\ \A i, j \in DOMAIN list : i # j => list[i] # list[j]
        /\ \A i, j \in DOMAIN list :
               i < j => bs[list[i]].expiry_date <= bs[list[j]].expiry_date}

\* handle_inventory_query returns None when it finds no medicine
NoResponse == [in_stock |-> FALSE, medicine_id |-> NoId]

\* the answers handle_inventory_query may give about a medicine
inventory_answers(bs, medicine_id) ==
    {IF list = <<>>
     THEN [in_stock |-> FALSE, medicine_id |-> medicine_id]
     ELSE [in_stock |-> TRUE, medicine_id |-> medicine_id,
           total_stock |-> total_quantity_from(bs, medicine_id, 1),
           nearest_expiry |-> bs[list[1]].expiry_date,
           dispense_batch |-> list[1]] :
     list \in order_by_expiry_date(bs, active_batches(bs, medicine_id))}

(***************************************************************************)
(* Alert rules                                                             *)
(***************************************************************************)
\* routers/alerts.py check_low_stock: the alert raised for a stock figure
low_stock_alert(medicine_id, stock) ==
    Alert(IF stock = 0 THEN "stock_out" ELSE "low_stock",
          medicine_id, NoId,
          IF stock = 0 THEN "critical"
          ELSE IF stock < HIGH_SEVERITY_STOCK THEN "high" ELSE "medium")

\* the loop of check_low_stock over the active medicines, from medicine i on
RECURSIVE check_low_stock_loop(_, _, _, _, _, _)
check_low_stock_loop(meds, bs, committed, pending, flush, i) ==
    IF i > Len(meds) THEN pending
    ELSE LET stock == total_stock(bs, i)
             seen == visible(committed, pending, flush)
             new == IF ~meds[i].is_active THEN <<>>
                    ELSE IF open_alert(seen, "low_stock", i) # NoId THEN <<>>
                    ELSE IF stock < LOW_STOCK_THRESHOLD
                         THEN <<low_stock_alert(i, stock)>>
                         ELSE <<>>
         IN check_low_stock_loop(meds, bs, committed, pending \o new, flush, i + 1)

\* the alerts table after POST /check-low-stock
check_low_stock_result(meds, bs, als, flush) ==
    als \o check_low_stock_loop(meds, bs, als, <<>>, flush, 1)

\* severity of an expiry warning
expiry_severity(days_until_expiry) ==
    IF days_until_expiry <= HIGH_SEVERITY_DAYS THEN "high" ELSE "medium"

\* raises a warning in every window a batch falls in: no look for an open one
RECURSIVE check_expiry_batches_per_window(_, _, _, _, _, _, _)
check_expiry_batches_per_window(bs, committed, pending, flush, td, days, i) ==
    IF i > Len(bs) THEN pending
    ELSE LET b == bs[i]
             new == IF /\ b.expiry_date <= td + days
                       /\ ~b.is_expired /\ b.quantity > 0
                       /\ b.expiry_date - td >= 0
                    THEN <<Alert("expiry_warning", b.medicine_id, i,
                                 expiry_severity(b.expiry_date - td))>>
                    ELSE <<>>
         IN check_expiry_batches_per_window(bs, committed, pending \o new,
                                            flush, td, days, i + 1)

\* the batches of one lookahead window of check_expiry_alerts, from batch i on
RECURSIVE check_expiry_batches(_, _, _, _, _, _, _)
check_expiry_batches(bs, committed, pending, flush, td, days, i) ==
    IF i > Len(bs) THEN pending
    ELSE LET b == bs[i]
             selected == b.expiry_date <= td + days
                         /\ ~b.is_expired /\ b.quantity > 0
             seen == visible(committed, pending, flush)
             days_until_expiry == b.expiry_date - td
             new == IF selected
                       /\ open_batch_alert(seen, "expiry_warning", i) = NoId
                       /\ days_until_expiry >= 0
                    THEN <<Alert("expiry_warning", b.medicine_id, i,
                                 expiry_severity(days_until_expiry))>>
                    ELSE <<>>
         IN check_expiry_batches(bs, committed, pending \o new, flush, td,
                                 days, i + 1)

\* the loop of check_expiry_alerts over settings.EXPIRY_ALERT_DAYS, from window w on
RECURSIVE check_expiry_windows(_, _, _, _, _, _)
check_expiry_windows(bs, committed, pending, flush, td, w) ==
    IF w > Len(EXPIRY_ALERT_DAYS) THEN pending
    ELSE check_expiry_windows(
             bs, committed,
             check_expiry_batches(bs, committed, pending, flush, td,
                                  EXPIRY_ALERT_DAYS[w], 1),
             flush, td, w + 1)

\* the alerts table after check_expiry_alerts(db)
check_expiry_alerts(bs, als, flush, td) ==
    als \o check_expiry_windows(bs, als, <<>>, flush, td, 1)

\* the loop of check_low_stock_alerts over the grouped stock levels
RECURSIVE check_low_stock_alerts_loop(_, _, _, _, _, _)
check_low_stock_alerts_loop(meds, bs, committed, pending, flush, i) ==
    IF i > Len(meds) THEN pending
    ELSE LET in_group == \E k \in DOMAIN bs :
                             bs[k].medicine_id = i
                             /\ bs[k].quantity > 0 /\ ~bs[k].is_expired
             total == total_quantity(bs, i)
             seen == visible(committed, pending, flush)
             new == IF in_group /\ total < LOW_STOCK_THRESHOLD
                       /\ open_alert(seen, "low_stock", i) = NoId
                    THEN <<Alert("low_stock", i, NoId,
                                 IF total = 0 THEN "high" ELSE "medium")>>
                    ELSE <<>>
         IN check_low_stock_alerts_loop(meds, bs, committed, pending \o new,
                                        flush, i + 1)

\* the alerts table after check_low_stock_alerts(db)
check_low_stock_alerts(meds, bs, als, flush) ==
    als \o check_low_stock_alerts_loop(meds, bs, als, <<>>, flush, 1)

(***************************************************************************)
(* Ingestion: the row loop of upload_inventory_file                        *)
(***************************************************************************)
\* expiry_date_only < today
expired_on(expiry_date, td) == expiry_date < td

adjustment_quantity_new_only(old_quantity, quantity) == quantity

\* quantity=quantity - old_quantity of the ADJUSTMENT row
adjustment_quantity(old_quantity, quantity) == quantity - old_quantity

\* rewrites the batch's first log row instead of appending the difference
update_batch_in_place(s, row, medicine_id, batch_id, td) ==
    LET at == first({i \in DOMAIN s.transactions :
                        s.transactions[i].batch_id = batch_id})
    IN [s EXCEPT !.batches[batch_id].quantity = row.quantity,
                 !.batches[batch_id].expiry_date = row.expiry_date,
                 !.batches[batch_id].is_expired = expired_on(row.expiry_date, td),
                 !.transactions = IF at = NoId THEN @
                                  ELSE [@ EXCEPT ![at].quantity = row.quantity],
                 !.success_count = @ + 1]

\* logs an ADJUSTMENT row for every re-ingested batch, changed or not
update_batch_always_logged(s, row, medicine_id, batch_id, td) ==
    [s EXCEPT !.batches[batch_id].quantity = row.quantity,
              !.batches[batch_id].expiry_date = row.expiry_date,
              !.batches[batch_id].is_expired = expired_on(row.expiry_date, td),
              !.transactions =
                  Append(@, InventoryTransaction(
                                medicine_id, batch_id, "adjustment",
                                row.quantity - s.batches[batch_id].quantity)),
              !.success_count = @ + 1]

\* the branch `if batch:` of a row: overwrite the batch, log the difference
update_batch(s, row, medicine_id, batch_id, td) ==
    LET old_quantity == s.batches[batch_id].quantity
        bs == [s.batches EXCEPT
                 ![batch_id].quantity = row.quantity,
                 ![batch_id].expiry_date = row.expiry_date,
                 ![batch_id].is_expired = expired_on(row.expiry_date, td)]
        txns == IF old_quantity # row.quantity
                THEN Append(s.transactions,
                            InventoryTransaction(
                                medicine_id, batch_id, "adjustment",
                                adjustment_quantity(old_quantity, row.quantity)))
                ELSE s.transactions
    IN [s EXCEPT !.batches = bs, !.transactions = txns,
                 !.success_count = @ + 1]

\* the branch `else:` of a row: add the batch, flush, log an IN row
create_batch(s, row, medicine_id, td) ==
    LET bs == Append(s.batches,
                     Batch(medicine_id, row.batch_no, row.quantity,
                           row.expiry_date, expired_on(row.expiry_date, td)))
    IN [s EXCEPT !.batches = bs,
                 !.transactions =
                     Append(@, InventoryTransaction(medicine_id, Len(bs), "in",
                                                    row.quantity)),
                 !.success_count = @ + 1]

\* one iteration of `for idx, row in df.iterrows()` on the session s
process_row(s, row, td) ==
    IF row.quantity < 0 \/ row.expiry_date = NaT
    THEN [s EXCEPT !.errors = @ + 1]
    ELSE LET found == medicine_by_sku(s.medicines, row.sku)
             meds == IF found = NoId
                     THEN Append(s.medicines, Medicine(row.sku))
                     ELSE s.medicines
             medicine_id == IF found = NoId THEN Len(meds) ELSE found
             s1 == [s EXCEPT !.medicines = meds]
             batch_id == batch_by_number(s.batches, medicine_id, row.batch_no)
         IN IF batch_id # NoId
            THEN update_batch(s1, row, medicine_id, batch_id, td)
            ELSE IF ~row.purchase_price_ok
                 THEN [s1 EXCEPT !.errors = @ + 1]
                 ELSE create_batch(s1, row, medicine_id, td)

RECURSIVE process_rows(_, _, _, _)
process_rows(s, file, td, idx) ==
    IF idx > Len(file) THEN s
    ELSE process_rows(process_row(s, file[idx], td), file, td, idx + 1)

\* the session of an upload after its row loop
upload_session(meds, bs, txns, file, td) ==
    process_rows([medicines |-> meds, batches |-> bs, transactions |-> txns,
                  success_count |-> 0, errors |-> 0],
                 file, td, 1)

\* commits the session even when no row succeeded
upload_result_without_rollback(meds, bs, txns, als, file, td, flush) ==
    LET s == upload_session(meds, bs, txns, file, td)
    IN [status |-> IF s.success_count = 0 THEN 400 ELSE 200,
        detail |-> IF s.success_count = 0 THEN "No valid rows to save"
                   ELSE "Upload completed",
        medicines |-> s.medicines, batches |-> s.batches,
        transactions |-> s.transactions,
        alerts |-> IF s.success_count = 0 THEN als
                   ELSE check_low_stock_alerts(
                            s.medicines, s.batches,
                            check_expiry_alerts(s.batches, als, flush, td),
                            flush)]

\* the store after upload_inventory_file, with the status of the response
upload_result(meds, bs, txns, als, file, td, flush) ==
    LET s == upload_session(meds, bs, txns, file, td)
    IN IF s.success_count = 0
       THEN [status |-> 400, detail |-> "No valid rows to save",
             medicines |-> meds, batches |-> bs, transactions |-> txns,
             alerts |-> als]
       ELSE [status |-> 200, detail |-> "Upload completed",
             medicines |-> s.medicines, batches |-> s.batches,
             transactions |-> s.transactions,
             alerts |-> check_low_stock_alerts(
                            s.medicines, s.batches,
                            check_expiry_alerts(s.batches, als, flush, td),
                            flush)]

(***************************************************************************)
(* Transactions and disposals                                              *)
(***************************************************************************)
\* the quantity create_transaction leaves in the named batch
quantity_after(old_quantity, transaction_type, quantity) ==
    IF transaction_type = "out" THEN old_quantity - quantity
    ELSE IF transaction_type = "in" THEN old_quantity + quantity
    ELSE old_quantity

insufficient_stock_inclusive(batch_quantity, quantity) ==
    batch_quantity <= quantity

\* `if batch.quantity < transaction.quantity: raise HTTPException(400)`
insufficient_stock(batch_quantity, quantity) == batch_quantity < quantity

create_transaction_result(meds, bs, txns, medicine_id, batch_id, transaction_type, quantity) ==
    IF medicine_id \notin DOMAIN meds
    THEN [status |-> 404, detail |-> "Medicine not found",
          batches |-> bs, transactions |-> txns]
    ELSE IF batch_id # NoId /\ batch_id \notin DOMAIN bs
    THEN [status |-> 404, detail |-> "Batch not found",
          batches |-> bs, transactions |-> txns]
    ELSE IF batch_id # NoId /\ transaction_type = "out"
            /\ insufficient_stock(bs[batch_id].quantity, quantity)
    THEN [status |-> 400, detail |-> "Insufficient stock",
          batches |-> bs, transactions |-> txns]
    ELSE [status |-> 200, detail |-> "",
          batches |-> IF batch_id # NoId
                      THEN [bs EXCEPT ![batch_id].quantity =
                                quantity_after(@, transaction_type, quantity)]
                      ELSE bs,
          transactions |-> Append(txns,
                                  InventoryTransaction(medicine_id, batch_id,
                                                       transaction_type,
                                                       quantity))]

\* marks the batch without logging the disposal
mark_batch_expired_unlogged(bs, txns, batch_id) ==
    IF batch_id \notin DOMAIN bs
    THEN [status |-> 404, detail |-> "Batch not found",
          batches |-> bs, transactions |-> txns]
    ELSE [status |-> 200, detail |-> "Batch marked as expired",
          batches |-> [bs EXCEPT ![batch_id].is_expired = TRUE,
                                 ![batch_id].quantity = 0],
          transactions |-> txns]

mark_batch_expired_result(bs, txns, batch_id) ==
    IF batch_id \notin DOMAIN bs
    THEN [status |-> 404, detail |-> "Batch not found",
          batches |-> bs, transactions |-> txns]
    ELSE LET batch == [bs[batch_id] EXCEPT !.is_expired = TRUE, !.quantity = 0]
         IN [status |-> 200, detail |-> "Batch marked as expired",
             batches |-> [bs EXCEPT ![batch_id] = batch],
             transactions |-> Append(txns,
                                     InventoryTransaction(batch.medicine_id,
                                                          batch_id, "expired",
                                                          batch.quantity))]

exceeds_available_inclusive(batch_quantity, quantity) ==
    quantity >= batch_quantity

\* `if quantity > batch.quantity: raise HTTPException(400)`
exceeds_available(batch_quantity, quantity) == quantity > batch_quantity

mark_batch_damaged_result(bs, txns, batch_id, quantity) ==
    IF batch_id \notin DOMAIN bs
    THEN [status |-> 404, detail |-> "Batch not found",
          batches |-> bs, transactions |-> txns]
    ELSE IF exceeds_available(bs[batch_id].quantity, quantity)
    THEN [status |-> 400, detail |-> "Damaged quantity exceeds available stock",
          batches |-> bs, transactions |-> txns]
    ELSE [status |-> 200, detail |-> "Batch marked as damaged",
          batches |-> [bs EXCEPT ![batch_id].is_damaged = TRUE,
                                 ![batch_id].quantity = @ - quantity],
          transactions |-> Append(txns,
                                  InventoryTransaction(bs[batch_id].medicine_id,
                                                       batch_id, "damaged",
                                                       quantity))]

(***************************************************************************)
(* The requests                                                            *)
(***************************************************************************)
Init ==
    /\ medicines = <<>>
    /\ batches = <<>>
    /\ transactions = <<>>
    /\ alerts = <<>>
    /\ today = 0
    /\ response = NoResponse
    /\ forecasts = <<>>
    /\ sessions = <<>>

\* POST /medicines
create_medicine(sku) ==
    /\ IF medicine_by_sku(medicines, sku) # NoId
       THEN medicines' = medicines
       ELSE medicines' = Append(medicines, Medicine(sku))
    /\ UNCHANGED <<batches, transactions, alerts, today, response,
                   forecasts, sessions>>

\* POST /upload
upload_inventory_file(file) ==
    LET r == upload_result(medicines, batches, transactions, alerts, file,
                           today, session_autoflush)
    IN /\ Len(r.batches) <= MaxBatches
       /\ Len(r.transactions) <= MaxTxns
       /\ Len(r.alerts) <= MaxAlerts
       /\ medicines' = r.medicines
       /\ batches' = r.batches
       /\ transactions' = r.transactions
       /\ alerts' = r.alerts
       /\ UNCHANGED <<today, response,
                   forecasts, sessions>>

\* POST /transactions
create_transaction(medicine_id, batch_id, transaction_type, quantity) ==
    LET r == create_transaction_result(medicines, batches, transactions,
                                       medicine_id, batch_id,
                                       transaction_type, quantity)
    IN /\ Len(r.transactions) <= MaxTxns
       /\ batches' = r.batches
       /\ transactions' = r.transactions
       /\ UNCHANGED <<medicines, alerts, today, response,
                   forecasts, sessions>>

\* POST /mark-expired/{batch_id}
mark_batch_expired(batch_id) ==
    LET r == mark_batch_expired_result(batches, transactions, batch_id)
    IN /\ Len(r.transactions) <= MaxTxns
       /\ batches' = r.batches
       /\ transactions' = r.transactions
       /\ UNCHANGED <<medicines, alerts, today, response,
                   forecasts, sessions>>

\* POST /mark-damaged/{batch_id}
mark_batch_damaged(batch_id, quantity) ==
    LET r == mark_batch_damaged_result(batches, transactions, batch_id, quantity)
    IN /\ Len(r.transactions) <= MaxTxns
       /\ batches' = r.batches
       /\ transactions' = r.transactions
       /\ UNCHANGED <<medicines, alerts, today, response,
                   forecasts, sessions>>

\* POST /check-low-stock
check_low_stock ==
    LET als == check_low_stock_result(medicines, batches, alerts, session_autoflush)
    IN /\ Len(als) <= MaxAlerts
       /\ alerts' = als
       /\ UNCHANGED <<medicines, batches, transactions, today, response,
                   forecasts, sessions>>

\* flips the flag, so that a second call reopens the alert
acknowledge_alert_toggle(alert_id, current_user) ==
    /\ IF alert_id \notin DOMAIN alerts
       THEN alerts' = alerts
       ELSE alerts' = [alerts EXCEPT ![alert_id].is_acknowledged = ~@,
                                     ![alert_id].acknowledged_by = current_user,
                                     ![alert_id].acknowledged_at = today]
    /\ UNCHANGED <<medicines, batches, transactions, today, response,
                   forecasts, sessions>>

\* POST /{alert_id}/acknowledge
acknowledge_alert(alert_id, current_user) ==
    /\ IF alert_id \notin DOMAIN alerts
       THEN alerts' = alerts
       ELSE alerts' = [alerts EXCEPT ![alert_id].is_acknowledged = TRUE,
                                     ![alert_id].acknowledged_by = current_user,
                                     ![alert_id].acknowledged_at = today]
    /\ UNCHANGED <<medicines, batches, transactions, today, response,
                   forecasts, sessions>>

\* datetime.now() moves to the next day
Tick ==
    /\ today < MaxDay
    /\ today' = today + 1
    /\ UNCHANGED <<medicines, batches, transactions, alerts, response,
                   forecasts, sessions>>

Next ==
    \/ \E sku \in SKUs : create_medicine(sku)
    \/ \E file \in Files : upload_inventory_file(file)
    \/ \E medicine_id \in 1..NumSKUs, batch_id \in 0..MaxBatches,
          transaction_type \in TxnTypes, quantity \in TxnQuantities :
          create_transaction(medicine_id, batch_id, transaction_type, quantity)
    \/ \E batch_id \in 1..MaxBatches : mark_batch_expired(batch_id)
    \/ \E batch_id \in 1..MaxBatches, quantity \in TxnQuantities :
          mark_batch_damaged(batch_id, quantity)
    \/ check_low_stock
    \/ \E alert_id \in 1..MaxAlerts, current_user \in Users :
          acknowledge_alert(alert_id, current_user)
    \/ Tick

Spec == Init /\ [][Next]_vars

(***************************************************************************)
(* The chatbot's stock answer over medicines with several batches          *)
(***************************************************************************)
NumFefoBatchNos == 2

\* valid rows of one medicine under several batch numbers
FefoRows ==
    [sku : {1}, batch_no : 1..NumFefoBatchNos, quantity : RowQuantities,
     expiry_date : ExpiryDates, purchase_price_ok : {TRUE}]

FefoFiles ==
    {<<r>> : r \in FefoRows} \cup {<<r1, r2>> : r1, r2 \in FefoRows}

\* POST /chat with a stock question naming the medicine
handle_inventory_query(medicine_id) ==
    /\ IF medicine_id \notin DOMAIN medicines
       THEN response' = NoResponse
       ELSE response' \in inventory_answers(batches, medicine_id)
    /\ UNCHANGED <<medicines, batches, transactions, alerts, today,
                   forecasts, sessions>>

FefoNext ==
    \/ \E file \in FefoFiles : upload_inventory_file(file)
    \/ \E batch_id \in 1..MaxBatches, quantity \in TxnQuantities :
          create_transaction(1, batch_id, "out", quantity)
    \/ \E batch_id \in 1..MaxBatches : mark_batch_expired(batch_id)
    \/ \E medicine_id \in 1..NumSKUs : handle_inventory_query(medicine_id)
    \/ Tick

FefoSpec == Init /\ [][FefoNext]_vars

(***************************************************************************)
(* Demand forecast (ml_models/forecasting.py, routers/forecasting.py).     *)
(* Demand and confidence are in hundredths.  The rows of the log carry     *)
(* created_at here, which the lookback window reads.                       *)
(***************************************************************************)
MaxForecasts == 2
MaxHistory == 46
ForecastDay == 100

LOOKBACK_DAYS == 90
DEFAULT_HORIZON_DAYS == 30
NO_HISTORY_CONFIDENCE == 30
BASE_CONFIDENCE == 50
MAX_CONFIDENCE == 95
MIN_REORDER_POINT == 10
MIN_RECOMMENDED_QUANTITY == 20

\* rounds to the nearest integer where the code truncates
round_div(a, b) == (2 * a + b) \div (2 * b)

\* int(x) of a quotient: towards zero
trunc_div(a, b) == IF a >= 0 THEN a \div b ELSE -((-a) \div b)

\* round(x, 2) of a quotient, in hundredths
round_hundredths(a, b) == (200 * a + b) \div (2 * b)

\* totals of demand up to 500 for which the double avg_daily_demand * 7 * 1.5
\* falls just short of the integer 7 * total / 60
SHORT_OF_LEAD_TIME_DEMAND == {60, 120, 240, 480}

\* totals of demand up to 500 for which the double forecasted_demand * 0.3,
\* at the default horizon, falls just short of the integer total / 10
SHORT_OF_THIRTY_PERCENT ==
    {10, 20, 40, 70, 80, 140, 160, 230, 250, 280, 320, 370, 410, 460, 470, 500}

\* int(avg_daily_demand * lead_time_days * safety_stock_multiplier)
lead_time_demand(total_demand) ==
    trunc_div(total_demand * 7 * 3, LOOKBACK_DAYS * 2)
    - (IF total_demand \in SHORT_OF_LEAD_TIME_DEMAND THEN 1 ELSE 0)

\* int(forecasted_demand * 0.3)
thirty_percent(total_demand, horizon_days) ==
    trunc_div(total_demand * horizon_days * 3, LOOKBACK_DAYS * 10)
    - (IF horizon_days = DEFAULT_HORIZON_DAYS
          /\ total_demand \in SHORT_OF_THIRTY_PERCENT THEN 1 ELSE 0)

Max(a, b) == IF a >= b THEN a ELSE b
Min(a, b) == IF a <= b THEN a ELSE b

\* a row of the log with its created_at
Logged(medicine_id, batch_id, transaction_type, quantity, created_at) ==
    [medicine_id |-> medicine_id, batch_id |-> batch_id,
     transaction_type |-> transaction_type, quantity |-> quantity,
     created_at |-> created_at]

\* the OUT rows of the medicine created in the last 90 days
out_transactions(txns, medicine_id, now) ==
    {i \in DOMAIN txns : /\ txns[i].medicine_id = medicine_id
                         /\ txns[i].transaction_type = "out"
                         /\ txns[i].created_at >= now - LOOKBACK_DAYS}

\* sum(txn.quantity for txn in transactions)
RECURSIVE total_demand_from(_, _, _)
total_demand_from(txns, ids, i) ==
    IF i > Len(txns) THEN 0
    ELSE (IF i \in ids THEN txns[i].quantity ELSE 0)
         + total_demand_from(txns, ids, i + 1)

confidence_without_cap(count) == BASE_CONFIDENCE + count

\* min(0.95, 0.5 + (len(transactions) / 100))
confidence_score(count) == Min(MAX_CONFIDENCE, BASE_CONFIDENCE + count)

calculate_demand_forecast(meds, bs, txns, medicine_id, horizon_days, now) ==
    IF medicine_id \notin DOMAIN meds
    THEN [forecasted_demand |-> 0, confidence_score |-> 0, reorder_point |-> 0,
          recommended_quantity |-> 0, reasoning |-> "Medicine not found"]
    ELSE LET history == out_transactions(txns, medicine_id, now)
             stock == current_stock(bs, medicine_id)
         IN IF history = {}
            THEN [forecasted_demand |-> stock * 30,
                  confidence_score |-> NO_HISTORY_CONFIDENCE,
                  reorder_point |-> Max(MIN_REORDER_POINT, trunc_div(stock, 5)),
                  recommended_quantity |->
                      Max(MIN_RECOMMENDED_QUANTITY, trunc_div(stock, 2)),
                  reasoning |-> "No historical data available"]
            ELSE LET total_demand == total_demand_from(txns, history, 1)
                     reorder_point == lead_time_demand(total_demand)
                     recommended_quantity ==
                         Max(thirty_percent(total_demand, horizon_days),
                             IF stock < reorder_point
                             THEN reorder_point - stock ELSE 0)
                 IN [forecasted_demand |->
                         round_hundredths(total_demand * horizon_days,
                                          LOOKBACK_DAYS),
                     confidence_score |->
                         confidence_score(Cardinality(history)),
                     reorder_point |-> Max(1, reorder_point),
                     recommended_quantity |-> Max(0, recommended_quantity),
                     reasoning |-> "Based on transactions"]

\* a row of the forecasts table
Forecast(medicine_id, forecast_date, horizon_days, forecast_data) ==
    [medicine_id |-> medicine_id, forecast_date |-> forecast_date,
     forecast_horizon_days |-> horizon_days,
     forecasted_demand |-> forecast_data.forecasted_demand,
     confidence_score |-> forecast_data.confidence_score,
     reorder_point |-> forecast_data.reorder_point,
     recommended_quantity |-> forecast_data.recommended_quantity]

\* keeps the newest snapshot only: the earlier rows are dropped
get_forecast_latest_only(medicine_id, horizon_days) ==
    LET row == Forecast(medicine_id, today, horizon_days,
                        calculate_demand_forecast(medicines, batches,
                                                  transactions, medicine_id,
                                                  horizon_days, today))
    IN /\ medicine_id \in DOMAIN medicines
       /\ forecasts' = <<row>>
       /\ UNCHANGED <<medicines, batches, transactions, alerts, today,
                      response, sessions>>

\* GET /forecasting/medicine/{medicine_id}
get_forecast(medicine_id, horizon_days) ==
    /\ IF medicine_id \notin DOMAIN medicines
       THEN forecasts' = forecasts
       ELSE forecasts' =
                Append(forecasts,
                       Forecast(medicine_id, today, horizon_days,
                                calculate_demand_forecast(
                                    medicines, batches, transactions,
                                    medicine_id, horizon_days, today)))
    /\ Len(forecasts') <= MaxForecasts
    /\ UNCHANGED <<medicines, batches, transactions, alerts, today, response,
                   sessions>>

\* the rows generate_batch_forecast adds, from medicine i on
RECURSIVE batch_forecast_all_medicines(_, _, _, _, _)
batch_forecast_all_medicines(meds, bs, txns, now, i) ==
    IF i > Len(meds) THEN <<>>
    ELSE (IF meds[i].is_active
          THEN <<Forecast(i, now, DEFAULT_HORIZON_DAYS,
                          calculate_demand_forecast(meds, bs, txns, i,
                                                    DEFAULT_HORIZON_DAYS, now))>>
          ELSE <<>>)
         \o batch_forecast_all_medicines(meds, bs, txns, now, i + 1)

\* POST /forecasting/batch-forecast
generate_batch_forecast ==
    /\ forecasts' = forecasts \o batch_forecast_all_medicines(
                                     medicines, batches, transactions, today, 1)
    /\ Len(forecasts') <= MaxForecasts
    /\ UNCHANGED <<medicines, batches, transactions, alerts, today, response,
                   sessions>>

priority_by_stock_first(stock, forecast_data) ==
    IF stock < forecast_data.reorder_point THEN "low_stock"
    ELSE IF stock = 0 /\ forecast_data.forecasted_demand > 0 THEN "critical"
    ELSE IF stock < forecast_data.recommended_quantity THEN "at_risk"
    ELSE "healthy"

\* the priority of a reorder suggestion
priority(stock, forecast_data) ==
    IF stock = 0 /\ forecast_data.forecasted_demand > 0 THEN "critical"
    ELSE IF stock < forecast_data.reorder_point THEN "low_stock"
    ELSE IF stock < forecast_data.recommended_quantity THEN "at_risk"
    ELSE "healthy"

priority_order == <<"critical", "low_stock", "at_risk", "healthy">>

\* the suggestions before the sort, from medicine i on
RECURSIVE suggestions(_, _, _, _, _, _)
suggestions(meds, bs, txns, now, critical_only, i) ==
    IF i > Len(meds) THEN <<>>
    ELSE LET forecast_data ==
                 calculate_demand_forecast(meds, bs, txns, i,
                                           DEFAULT_HORIZON_DAYS, now)
             stock == current_stock(bs, i)
             p == priority(stock, forecast_data)
         IN (IF ~meds[i].is_active
                \/ (critical_only /\ p \notin {"critical", "low_stock"})
             THEN <<>>
             ELSE <<[medicine_id |-> i, current_stock |-> stock,
                     priority |-> p,
                     forecasted_demand |-> forecast_data.forecasted_demand,
                     reorder_point |-> forecast_data.reorder_point,
                     recommended_quantity |->
                         forecast_data.recommended_quantity]>>)
            \o suggestions(meds, bs, txns, now, critical_only, i + 1)

\* the entries of a list with one priority, in the order of the list
RECURSIVE with_priority(_, _, _)
with_priority(list, p, i) ==
    IF i > Len(list) THEN <<>>
    ELSE (IF list[i].priority = p THEN <<list[i]>> ELSE <<>>)
         \o with_priority(list, p, i + 1)

\* suggestions.sort(key=priority_order): a stable sort by rank
sort_by_priority(list) ==
    with_priority(list, priority_order[1], 1)
    \o with_priority(list, priority_order[2], 1)
    \o with_priority(list, priority_order[3], 1)
    \o with_priority(list, priority_order[4], 1)

get_reorder_suggestions_result(meds, bs, txns, now, critical_only) ==
    sort_by_priority(suggestions(meds, bs, txns, now, critical_only, 1))

\* GET /forecasting/reorder-suggestions
get_reorder_suggestions(critical_only) ==
    /\ response' =
           [critical_only |-> critical_only,
            suggestions |-> get_reorder_suggestions_result(
                                medicines, batches, transactions, today,
                                critical_only)]
    /\ UNCHANGED <<medicines, batches, transactions, alerts, today, forecasts,
                   sessions>>

\* stocks and histories of the ledgers the forecast is run on
ForecastStocks == {-20, 0, 15, 59}
HistorySizes == {0, 1, 2, MaxHistory - 1, MaxHistory}
OutQuantities == {5, 10}

\* n OUT rows of a medicine, all created at one day
History(medicine_id, n, quantity, created_at) ==
    [i \in 1..n |-> Logged(medicine_id, medicine_id, "out", quantity, created_at)]

\* ledgers of two medicines with one batch each: the IN row of its upload, an
\* OUT row older than the lookback window for medicine 1, and the OUT rows of
\* the window (the forecast reads the batch quantities and the OUT rows only)
ForecastInit ==
    /\ medicines = <<Medicine(1), Medicine(2)>>
    /\ today = ForecastDay
    /\ \E s1, s2 \in ForecastStocks :
          /\ batches = <<Batch(1, 1, s1, today + LOOKBACK_DAYS, FALSE),
                         Batch(2, 1, s2, today + LOOKBACK_DAYS, FALSE)>>
          /\ \E n1, n2 \in HistorySizes, q \in OutQuantities, old \in 0..1 :
                transactions =
                    <<Logged(1, 1, "in", s1, 0), Logged(2, 2, "in", s2, 0)>>
                    \o History(1, old, q, today - LOOKBACK_DAYS - 1)
                    \o History(1, n1, q, today - 1)
                    \o History(2, n2, 5, today - 1)
    /\ alerts = <<>>
    /\ response = NoResponse
    /\ forecasts = <<>>
    /\ sessions = <<>>

ForecastNext ==
    \/ \E medicine_id \in 1..(NumSKUs + 1) :
          get_forecast(medicine_id, DEFAULT_HORIZON_DAYS)
    \/ generate_batch_forecast
    \/ \E critical_only \in BOOLEAN : get_reorder_suggestions(critical_only)

ForecastSpec == ForecastInit /\ [][ForecastNext]_vars

(***************************************************************************)
(* Waste analytics                                                         *)
(***************************************************************************)
WasteDay == 100
WASTE_WINDOW_DAYS == 90

\* a medicine with its price; `mrp or 0` and SQL's SUM read a missing price as 0
PricedMedicine(sku, mrp) == [sku |-> sku, is_active |-> TRUE, mrp |-> mrp]

\* a batch with its lifecycle flags and the time of its last update
FlaggedBatch(medicine_id, batch_number, quantity, expiry_date, flags, updated_at) ==
    [medicine_id |-> medicine_id, batch_number |-> batch_number,
     quantity |-> quantity, expiry_date |-> expiry_date,
     is_expired |-> "expired" \in flags, is_damaged |-> "damaged" \in flags,
     is_recalled |-> "recalled" \in flags, is_returned |-> "returned" \in flags,
     updated_at |-> updated_at]

\* Batch.is_expired == True, Batch.expiry_date between start_date and end_date
expired_batches(bs, start_date, end_date) ==
    {i \in DOMAIN bs : /\ bs[i].is_expired
                       /\ bs[i].expiry_date >= start_date
                       /\ bs[i].expiry_date <= end_date}

damaged_batches(bs, start_date, end_date) ==
    {i \in DOMAIN bs : /\ bs[i].is_damaged
                       /\ bs[i].updated_at >= start_date
                       /\ bs[i].updated_at <= end_date}

recalled_batches(bs, start_date, end_date) ==
    {i \in DOMAIN bs : /\ bs[i].is_recalled
                       /\ bs[i].updated_at >= start_date
                       /\ bs[i].updated_at <= end_date}

returned_batches(bs, start_date, end_date) ==
    {i \in DOMAIN bs : /\ bs[i].is_returned
                       /\ bs[i].updated_at >= start_date
                       /\ bs[i].updated_at <= end_date}

\* sum([b.quantity * (b.medicine.mrp or 0) for b in ...])
RECURSIVE value_from(_, _, _, _)
value_from(meds, bs, ids, i) ==
    IF i > Len(bs) THEN 0
    ELSE (IF i \in ids THEN bs[i].quantity * meds[bs[i].medicine_id].mrp
          ELSE 0)
         + value_from(meds, bs, ids, i + 1)

\* sum([b.quantity for b in ...])
RECURSIVE quantity_from(_, _, _)
quantity_from(bs, ids, i) ==
    IF i > Len(bs) THEN 0
    ELSE (IF i \in ids THEN bs[i].quantity ELSE 0)
         + quantity_from(bs, ids, i + 1)

bucket(meds, bs, ids) ==
    [quantity |-> quantity_from(bs, ids, 1),
     value |-> value_from(meds, bs, ids, 1),
     count |-> Cardinality(ids)]

\* func.sum(Batch.quantity * Medicine.mrp) over the batches that are not
\* expired, damaged or recalled
total_inventory_value(meds, bs) ==
    value_from(meds, bs,
               {i \in DOMAIN bs : /\ ~bs[i].is_expired /\ ~bs[i].is_damaged
                                  /\ ~bs[i].is_recalled}, 1)

\* round(total_waste_value / total_inventory_value * 100, 2), in hundredths
\* of a percent, if total_inventory_value > 0, else 0
wastage_rate(total_waste_value, inventory_value) ==
    IF inventory_value > 0
    THEN round_hundredths(total_waste_value * 100, inventory_value)
    ELSE 0

get_waste_analytics_result(meds, bs, start_date, end_date) ==
    LET expired == bucket(meds, bs, expired_batches(bs, start_date, end_date))
        damaged == bucket(meds, bs, damaged_batches(bs, start_date, end_date))
        recalled == bucket(meds, bs, recalled_batches(bs, start_date, end_date))
        returned == bucket(meds, bs, returned_batches(bs, start_date, end_date))
        total_waste_value == expired.value + damaged.value + recalled.value
    IN [period |-> [start_date |-> start_date, end_date |-> end_date],
        expired |-> expired, damaged |-> damaged, recalled |-> recalled,
        returned |-> returned,
        total |-> [quantity |-> expired.quantity + damaged.quantity
                                   + recalled.quantity + returned.quantity,
                   value |-> total_waste_value,
                   wastage_rate_percent |->
                       wastage_rate(total_waste_value,
                                    total_inventory_value(meds, bs))]]

\* the window of a request: end_date defaults to now, start_date to 90 days
\* before end_date
window(start_date, end_date, now) ==
    LET end == IF end_date = NaT THEN now ELSE end_date
    IN [start_date |-> IF start_date = NaT THEN end - WASTE_WINDOW_DAYS
                       ELSE start_date,
        end_date |-> end]

\* GET /waste/analytics
get_waste_analytics(start_date, end_date) ==
    LET w == window(start_date, end_date, today)
    IN /\ response' = get_waste_analytics_result(medicines, batches,
                                                 w.start_date, w.end_date)
       /\ UNCHANGED <<medicines, batches, transactions, alerts, today,
                      forecasts, sessions>>

\* prices, quantities, flag sets and dates of the ledgers the analytics run on
WastePrices == {0, 10}
WasteQuantities == {-20, 15}
WasteFlags == SUBSET {"expired", "damaged", "recalled", "returned"}
WasteDates == {WasteDay - WASTE_WINDOW_DAYS - 1, WasteDay - 1}

\* two medicines, one batch each, with any flags; a batch was last updated
\* on the day it expired
WasteInit ==
    /\ today = WasteDay
    /\ \E mrp \in WastePrices :
          medicines = <<PricedMedicine(1, mrp), PricedMedicine(2, 25)>>
    /\ \E q \in WasteQuantities, f1, f2 \in WasteFlags, d1, d2 \in WasteDates :
          batches = <<FlaggedBatch(1, 1, q, d1, f1, d1),
                      FlaggedBatch(2, 1, 7, d2, f2, d2)>>
    /\ transactions = <<>>
    /\ alerts = <<>>
    /\ response = NoResponse
    /\ forecasts = <<>>
    /\ sessions = <<>>

WasteNext ==
    \E start_date \in {NaT, 0} : get_waste_analytics(start_date, NaT)

WasteSpec == WasteInit /\ [][WasteNext]_vars

(***************************************************************************)
(* Requests that overlap: each request works in a session of its own, its  *)
(* queries read the committed tables and its writes reach them at commit.  *)
(* The handlers take no row lock, and the tables have no version column    *)
(* and no unique key on (medicine_id, batch_number).                       *)
(***************************************************************************)
NumRequests == 2
RaceStocks == {10, 15, 20}
RaceQuantities == {5, 10}
NoStatus == 0

\* a POST /transactions OUT request on batch 1 of medicine 1 before it ran
OutRequest(quantity) ==
    [medicine_id |-> 1, batch_id |-> 1, transaction_type |-> "out",
     quantity |-> quantity, pc |-> "query", batch_quantity |-> NaT,
     status |-> NoStatus]

\* db.query(Batch).filter(Batch.id == transaction.batch_id).first()
query_batch(r) ==
    /\ r \in DOMAIN sessions
    /\ sessions[r].pc = "query"
    /\ sessions[r].medicine_id \in DOMAIN medicines
    /\ sessions[r].batch_id \in DOMAIN batches
    /\ sessions' = [sessions EXCEPT
                      ![r].batch_quantity = batches[sessions[r].batch_id].quantity,
                      ![r].pc = "check"]
    /\ UNCHANGED <<medicines, batches, transactions, alerts, today, response,
                   forecasts>>

\* if batch.quantity < transaction.quantity: raise HTTPException(400)
check_stock(r) ==
    /\ r \in DOMAIN sessions
    /\ sessions[r].pc = "check"
    /\ sessions' =
           IF insufficient_stock(sessions[r].batch_quantity, sessions[r].quantity)
           THEN [sessions EXCEPT ![r].status = 400, ![r].pc = "done"]
           ELSE [sessions EXCEPT ![r].pc = "write"]
    /\ UNCHANGED <<medicines, batches, transactions, alerts, today, response,
                   forecasts>>

\* batch.quantity -= transaction.quantity, on the object the session loaded
write_quantity(r) ==
    /\ r \in DOMAIN sessions
    /\ sessions[r].pc = "write"
    /\ sessions' = [sessions EXCEPT
                      ![r].batch_quantity =
                          quantity_after(@, sessions[r].transaction_type,
                                         sessions[r].quantity),
                      ![r].pc = "commit"]
    /\ UNCHANGED <<medicines, batches, transactions, alerts, today, response,
                   forecasts>>

\* db.add(db_transaction); db.commit(): the session's value of the quantity
\* is written to the row, the log row is inserted
commit_transaction(r) ==
    /\ r \in DOMAIN sessions
    /\ sessions[r].pc = "commit"
    /\ batches' = [batches EXCEPT ![sessions[r].batch_id].quantity =
                                      sessions[r].batch_quantity]
    /\ transactions' = Append(transactions,
                              InventoryTransaction(sessions[r].medicine_id,
                                                   sessions[r].batch_id,
                                                   sessions[r].transaction_type,
                                                   sessions[r].quantity))
    /\ sessions' = [sessions EXCEPT ![r].status = 200, ![r].pc = "done"]
    /\ UNCHANGED <<medicines, alerts, today, response, forecasts>>

\* one medicine with one uploaded batch, and two OUT requests on it
TransactionRaceInit ==
    /\ medicines = <<Medicine(1)>>
    /\ today = 0
    /\ \E quantity \in RaceStocks :
          /\ batches = <<Batch(1, 1, quantity, 45, FALSE)>>
          /\ transactions = <<InventoryTransaction(1, 1, "in", quantity)>>
    /\ alerts = <<>>
    /\ response = NoResponse
    /\ forecasts = <<>>
    /\ sessions \in [1..NumRequests -> {OutRequest(q) : q \in RaceQuantities}]

TransactionRaceNext ==
    \E r \in 1..NumRequests :
        \/ query_batch(r)
        \/ check_stock(r)
        \/ write_quantity(r)
        \/ commit_transaction(r)

TransactionRaceSpec == TransactionRaceInit /\ [][TransactionRaceNext]_vars

\* a POST /upload request of a one-row file before it ran
UploadRequest(row) ==
    [row |-> row, pc |-> "query", medicine_id |-> NoId, batch_id |-> NoId,
     status |-> NoStatus]

\* the queries of the row: the medicine by SKU, the batch by medicine and
\* batch number
upload_query(r) ==
    /\ r \in DOMAIN sessions
    /\ sessions[r].pc = "query"
    /\ medicine_by_sku(medicines, sessions[r].row.sku) # NoId
    /\ LET medicine_id == medicine_by_sku(medicines, sessions[r].row.sku)
       IN sessions' = [sessions EXCEPT
                         ![r].medicine_id = medicine_id,
                         ![r].batch_id = batch_by_number(
                                             batches, medicine_id,
                                             sessions[r].row.batch_no),
                         ![r].pc = "commit"]
    /\ UNCHANGED <<medicines, batches, transactions, alerts, today, response,
                   forecasts>>

\* the branch the row took is written: the batch is updated or added, with
\* its log row; after the commit the alert sweeps run
upload_commit(r) ==
    /\ r \in DOMAIN sessions
    /\ sessions[r].pc = "commit"
    /\ LET s0 == [medicines |-> medicines, batches |-> batches,
                  transactions |-> transactions, success_count |-> 0,
                  errors |-> 0]
           s == IF sessions[r].batch_id # NoId
                THEN update_batch(s0, sessions[r].row, sessions[r].medicine_id,
                                  sessions[r].batch_id, today)
                ELSE create_batch(s0, sessions[r].row, sessions[r].medicine_id,
                                  today)
       IN /\ batches' = s.batches
          /\ transactions' = s.transactions
          /\ alerts' = check_low_stock_alerts(
                           medicines, s.batches,
                           check_expiry_alerts(s.batches, alerts,
                                               session_autoflush, today),
                           session_autoflush)
    /\ sessions' = [sessions EXCEPT ![r].status = 200, ![r].pc = "done"]
    /\ UNCHANGED <<medicines, today, response, forecasts>>

\* the medicine exists without batches; two uploads of one valid row each
UploadRaceInit ==
    /\ medicines = <<Medicine(1)>>
    /\ today \in 0..MaxDay
    /\ batches = <<>>
    /\ transactions = <<>>
    /\ alerts = <<>>
    /\ response = NoResponse
    /\ forecasts = <<>>
    /\ sessions \in [1..NumRequests -> {UploadRequest(row) : row \in FefoRows}]

UploadRaceNext ==
    \E r \in 1..NumRequests : upload_query(r) \/ upload_commit(r)

UploadRaceSpec == UploadRaceInit /\ [][UploadRaceNext]_vars

(***************************************************************************)
(* Properties                                                              *)
(***************************************************************************)
IsPrefix(s, t) == Len(s) <= Len(t) /\ SubSeq(t, 1, Len(s)) = s

\* the entity an alert is about: its batch when it names one, else its medicine
AlertEntity(a) ==
    IF a.batch_id # NoId THEN <<"batch", a.batch_id>>
    ELSE <<"medicine", a.medicine_id>>

\* quantities a request is tried with in a state: the inputs and the boundary
\* of the named batch
QuantitiesAround(batch_quantity) ==
    TxnQuantities \cup {0, 30, batch_quantity, batch_quantity + 1}

\* C1: for each (entity, alert_type) pair at most one alert is unacknowledged,
\* in every reachable state.
C1_AtMostOneOpenAlert ==
    \A i, j \in DOMAIN alerts :
        (/\ i # j
         /\ ~alerts[i].is_acknowledged /\ ~alerts[j].is_acknowledged
         /\ alerts[i].alert_type = alerts[j].alert_type)
        => AlertEntity(alerts[i]) # AlertEntity(alerts[j])

\* C2: a second run of the alert rules right after a first one, with nothing
\* changed in between, creates no alert: after a low-stock sweep the sweep adds
\* nothing more, after the sweeps of an upload the expiry rule adds nothing more.
C2_SecondRunCreatesNothing ==
    [][/\ check_low_stock =>
            check_low_stock_result(medicines', batches', alerts',
                                   session_autoflush) = alerts'
       /\ (\E file \in Files : upload_inventory_file(file)) =>
            check_expiry_alerts(batches', alerts', session_autoflush, today')
                = alerts']_vars

\* C3: the quantity of every batch is non-negative in every reachable state.
C3_QuantityNonNegative ==
    \A b \in DOMAIN batches : batches[b].quantity >= 0

\* C4: each of create_transaction, mark_batch_damaged and mark_batch_expired,
\* tried in any reachable state with any input, either succeeds and commits
\* exactly one new transaction row with its batch change, or fails and leaves
\* batches and log as they were.
AtomicUnit(r) ==
    /\ r.status = 200 =>
           /\ Len(r.transactions) = Len(transactions) + 1
           /\ IsPrefix(transactions, r.transactions)
    /\ r.status # 200 => r.batches = batches /\ r.transactions = transactions
    /\ Len(r.batches) = Len(batches)

C4_AtomicUnit ==
    /\ \A m \in 1..NumSKUs, b \in 0..MaxBatches, ty \in TransactionType,
          q \in TxnQuantities :
          AtomicUnit(create_transaction_result(medicines, batches,
                                               transactions, m, b, ty, q))
    /\ \A b \in 1..MaxBatches :
          AtomicUnit(mark_batch_expired_result(batches, transactions, b))
    /\ \A b \in 1..MaxBatches, q \in TxnQuantities :
          AtomicUnit(mark_batch_damaged_result(batches, transactions, b, q))

C4_Witness ==
    \E i \in DOMAIN transactions :
        /\ transactions[i].transaction_type = "expired"
        /\ transactions[i].batch_id \in DOMAIN batches
        /\ batches[transactions[i].batch_id].is_expired
        /\ batches[transactions[i].batch_id].quantity = 0

\* C5: an OUT transaction on a named batch fails with "Insufficient stock" when
\* the batch holds less than the quantity, changing neither the batches nor the
\* log; otherwise it takes exactly the quantity off the batch and appends one
\* OUT row of that quantity.
C5_OutTransaction ==
    \A m \in DOMAIN medicines, b \in DOMAIN batches :
        \A q \in QuantitiesAround(batches[b].quantity) :
            LET r == create_transaction_result(medicines, batches, transactions,
                                               m, b, "out", q)
            IN IF batches[b].quantity < q
               THEN /\ r.status = 400 /\ r.detail = "Insufficient stock"
                    /\ r.batches = batches
                    /\ r.transactions = transactions
               ELSE /\ r.status = 200
                    /\ r.batches =
                           [batches EXCEPT ![b].quantity = batches[b].quantity - q]
                    /\ r.transactions =
                           Append(transactions,
                                  InventoryTransaction(m, b, "out", q))

\* an OUT of 10 was taken from a batch ingested with 15
C5_Witness ==
    /\ Len(transactions) = 2
    /\ transactions[1].transaction_type = "in"
    /\ transactions[1].quantity = 15
    /\ transactions[2].transaction_type = "out"
    /\ transactions[2].quantity = 10
    /\ transactions[2].batch_id = transactions[1].batch_id
    /\ batches[transactions[2].batch_id].quantity = 5

\* C6: mark_batch_damaged with more than the batch holds fails with "Damaged
\* quantity exceeds available stock" and changes nothing; with at most what the
\* batch holds it takes the quantity off, sets is_damaged and appends one
\* DAMAGED row of that quantity.
C6_MarkDamaged ==
    \A b \in DOMAIN batches :
        \A q \in QuantitiesAround(batches[b].quantity) :
            LET r == mark_batch_damaged_result(batches, transactions, b, q)
            IN IF q > batches[b].quantity
               THEN /\ r.status = 400
                    /\ r.detail = "Damaged quantity exceeds available stock"
                    /\ r.batches = batches
                    /\ r.transactions = transactions
               ELSE /\ r.status = 200
                    /\ r.batches =
                           [batches EXCEPT
                              ![b].quantity = batches[b].quantity - q,
                              ![b].is_damaged = TRUE]
                    /\ r.transactions =
                           Append(transactions,
                                  InventoryTransaction(batches[b].medicine_id,
                                                       b, "damaged", q))

\* 10 of a batch ingested with 15 were marked damaged
C6_Witness ==
    /\ Len(transactions) = 2
    /\ transactions[1].transaction_type = "in"
    /\ transactions[1].quantity = 15
    /\ transactions[2].transaction_type = "damaged"
    /\ transactions[2].quantity = 10
    /\ transactions[2].batch_id = transactions[1].batch_id
    /\ batches[transactions[2].batch_id].is_damaged
    /\ batches[transactions[2].batch_id].quantity = 5

\* C7: every logged transaction of a type other than ADJUSTMENT has a
\* quantity above zero.
C7_PositiveQuantity ==
    \A i \in DOMAIN transactions :
        transactions[i].transaction_type # "adjustment"
            => transactions[i].quantity > 0

\* C8: a successful create_transaction of type EXPIRED, DAMAGED or RECALLED on
\* a named batch, with a positive quantity, sets the batch's flag of that type
\* and leaves the batch with less than before, or with nothing.
LifecycleFlag(batch, transaction_type) ==
    IF transaction_type = "expired" THEN batch.is_expired
    ELSE IF transaction_type = "damaged" THEN batch.is_damaged
    ELSE batch.is_recalled

C8_LifecycleTransaction ==
    \A m \in DOMAIN medicines, b \in DOMAIN batches,
       ty \in {"expired", "damaged", "recalled"}, q \in {10} :
        LET r == create_transaction_result(medicines, batches, transactions,
                                           m, b, ty, q)
        IN r.status = 200 =>
               /\ LifecycleFlag(r.batches[b], ty)
               /\ \/ r.batches[b].quantity = 0
                  \/ r.batches[b].quantity < batches[b].quantity

\* C9: the log only grows at its end: every step leaves the rows already
\* logged in place and unchanged.
C9_AppendOnly == [][IsPrefix(transactions, transactions')]_vars

\* a batch was ingested, re-ingested with another quantity, and its first row
\* is still the IN of 15
C9_Witness ==
    /\ Len(transactions) = 2
    /\ transactions[1].transaction_type = "in"
    /\ transactions[1].quantity = 15
    /\ transactions[2].transaction_type = "adjustment"
    /\ transactions[2].batch_id = transactions[1].batch_id

\* C10: an upload of one valid row creates the batch with the row's quantity
\* and one IN row of that quantity when the (SKU, batch number) is new, and
\* overwrites the quantity and appends one ADJUSTMENT row of new - old when the
\* batch exists with another quantity.
IngestedRow(row) ==
    LET r == upload_result(medicines, batches, transactions, alerts, <<row>>,
                           today, session_autoflush)
        known == medicine_by_sku(medicines, row.sku)
        batch_id == IF known = NoId THEN NoId
                    ELSE batch_by_number(batches, known, row.batch_no)
        medicine_id == medicine_by_sku(r.medicines, row.sku)
    IN /\ r.status = 200
       /\ medicine_id # NoId
       /\ IF batch_id = NoId
          THEN /\ Len(r.batches) = Len(batches) + 1
               /\ SubSeq(r.batches, 1, Len(batches)) = batches
               /\ r.batches[Len(r.batches)].medicine_id = medicine_id
               /\ r.batches[Len(r.batches)].batch_number = row.batch_no
               /\ r.batches[Len(r.batches)].quantity = row.quantity
               /\ r.transactions =
                      Append(transactions,
                             InventoryTransaction(medicine_id, Len(r.batches),
                                                  "in", row.quantity))
          ELSE /\ Len(r.batches) = Len(batches)
               /\ r.batches[batch_id].quantity = row.quantity
               /\ batches[batch_id].quantity # row.quantity =>
                      r.transactions =
                          Append(transactions,
                                 InventoryTransaction(
                                     medicine_id, batch_id, "adjustment",
                                     row.quantity - batches[batch_id].quantity))

C10_IngestRow ==
    \A row \in Rows :
        (row.quantity >= 0 /\ row.expiry_date # NaT /\ row.purchase_price_ok)
            => IngestedRow(row)

\* a batch ingested with 15 and then with 0: IN 15, then ADJUSTMENT -15
C10_Witness ==
    /\ Len(transactions) = 2
    /\ transactions[1] = InventoryTransaction(1, 1, "in", 15)
    /\ transactions[2] = InventoryTransaction(1, 1, "adjustment", -15)
    /\ batches[1].quantity = 0

\* a row the loop accepts: quantity and expiry date parse, the price is a number
ValidRow(row) ==
    row.quantity >= 0 /\ row.expiry_date # NaT /\ row.purchase_price_ok

\* C11: ingesting the same row a second time, as the next row of the same file
\* or in the next upload (the same day or a later one), appends no transaction
\* and leaves the quantity of every batch as the first ingestion left it.
C11_SameRowAgain ==
    \A row \in Rows : ValidRow(row) =>
        LET once == upload_result(medicines, batches, transactions, alerts,
                                  <<row>>, today, session_autoflush)
            twice == upload_result(medicines, batches, transactions, alerts,
                                   <<row, row>>, today, session_autoflush)
        IN /\ twice.transactions = once.transactions
           /\ twice.batches = once.batches
           /\ \A td \in today..(today + 1) :
                  LET again == upload_result(once.medicines, once.batches,
                                             once.transactions, once.alerts,
                                             <<row>>, td, session_autoflush)
                  IN /\ again.status = 200
                     /\ again.transactions = once.transactions
                     /\ Len(again.batches) = Len(once.batches)
                     /\ \A b \in DOMAIN once.batches :
                            again.batches[b].quantity = once.batches[b].quantity

\* a batch ingested with 15 while it was not yet expired (it has its expiry
\* warning) was ingested again with 15 a day later, after its expiry date: it
\* is flagged expired and the log still holds the IN row alone
C11_Witness ==
    /\ transactions = <<InventoryTransaction(1, 1, "in", 15)>>
    /\ batches[1].quantity = 15
    /\ batches[1].is_expired
    /\ \E a \in DOMAIN alerts : /\ alerts[a].alert_type = "expiry_warning"
                                 /\ alerts[a].batch_id = 1

\* the rows of a file that the row loop did not report in its error list
RECURSIVE succeeded_rows(_, _, _, _)
succeeded_rows(s, file, td, idx) ==
    IF idx > Len(file) THEN <<>>
    ELSE LET after == process_row(s, file[idx], td)
         IN (IF after.errors > s.errors THEN <<>> ELSE <<file[idx]>>)
            \o succeeded_rows(after, file, td, idx + 1)

\* C12: a row reported in the error list contributes nothing to the committed
\* state: an upload that commits leaves the medicines, batches and log that
\* the file's other rows alone would have left.
C12_RowAtomic ==
    \A file \in Files :
        LET r == upload_result(medicines, batches, transactions, alerts, file,
                               today, session_autoflush)
            start == [medicines |-> medicines, batches |-> batches,
                      transactions |-> transactions,
                      success_count |-> 0, errors |-> 0]
            others == upload_result(medicines, batches, transactions, alerts,
                                    succeeded_rows(start, file, today, 1),
                                    today, session_autoflush)
        IN r.status = 200 =>
               /\ r.medicines = others.medicines
               /\ r.batches = others.batches
               /\ r.transactions = others.transactions

\* C13: an upload none of whose rows succeeds answers with an error status and
\* leaves medicines, batches, log and alerts as they were.
C13_NothingPersisted ==
    \A file \in Files :
        LET s == upload_session(medicines, batches, transactions, file, today)
            r == upload_result(medicines, batches, transactions, alerts, file,
                               today, session_autoflush)
        IN s.success_count = 0 =>
               /\ r.status = 400
               /\ r.medicines = medicines
               /\ r.batches = batches
               /\ r.transactions = transactions
               /\ r.alerts = alerts

\* the store holds a batch and an alert, and a file is at hand whose only row
\* fails after the row loop has flushed a new medicine for it
C13_Witness ==
    /\ batches # <<>>
    /\ alerts # <<>>
    /\ \E file \in Files :
          LET s == upload_session(medicines, batches, transactions, file, today)
          IN /\ s.success_count = 0
             /\ s.errors = Len(file)
             /\ Len(s.medicines) > Len(medicines)

\* C14: after an operation that writes a batch (create_transaction IN or OUT,
\* mark_batch_damaged, mark_batch_expired, an ingestion row), the batch is
\* flagged expired if its expiry date is before the day of the write; after an
\* ingestion row the flag equals (expiry date < today).
C14_ExpiredWhenWritten ==
    /\ \A m \in DOMAIN medicines, b \in DOMAIN batches, ty \in {"in", "out"},
          q \in TxnQuantities :
          LET r == create_transaction_result(medicines, batches, transactions,
                                             m, b, ty, q)
          IN (r.status = 200 /\ r.batches[b].expiry_date < today)
                 => r.batches[b].is_expired
    /\ \A b \in DOMAIN batches, q \in TxnQuantities :
          LET r == mark_batch_damaged_result(batches, transactions, b, q)
          IN (r.status = 200 /\ r.batches[b].expiry_date < today)
                 => r.batches[b].is_expired
    /\ \A b \in DOMAIN batches :
          LET r == mark_batch_expired_result(batches, transactions, b)
          IN (r.status = 200 /\ r.batches[b].expiry_date < today)
                 => r.batches[b].is_expired
    /\ \A row \in Rows : ValidRow(row) =>
          LET r == upload_result(medicines, batches, transactions, alerts,
                                 <<row>>, today, session_autoflush)
              b == batch_by_number(r.batches,
                                   medicine_by_sku(r.medicines, row.sku),
                                   row.batch_no)
          IN /\ b # NoId
             /\ r.batches[b].is_expired = (row.expiry_date < today)

\* the alerts a rule added to the table
AddedAlerts(before, after) == SubSeq(after, Len(before) + 1, Len(after))

\* what the low-stock rule owes each active medicine, given the alerts before
\* the run and after it
LowStockRule(meds, bs, before, after) ==
    \A m \in DOMAIN meds : meds[m].is_active =>
        LET stock == total_quantity(bs, m)
            type == IF stock = 0 THEN "stock_out" ELSE "low_stock"
            severity == IF stock = 0 THEN "critical"
                        ELSE IF stock < HIGH_SEVERITY_STOCK THEN "high"
                        ELSE "medium"
            new == AddedAlerts(before, after)
            mine == {i \in DOMAIN new :
                        /\ new[i].medicine_id = m
                        /\ new[i].alert_type \in {"low_stock", "stock_out"}}
        IN IF stock < LOW_STOCK_THRESHOLD /\ open_alert(before, type, m) = NoId
           THEN \E i \in mine :
                    mine = {i} /\ new[i] = Alert(type, m, NoId, severity)
           ELSE mine = {}

\* C15: a run of the low-stock rule, by POST /check-low-stock or at the end of
\* an upload, gives every active medicine with raw available stock below 20 and
\* no open alert of the resulting type one alert: STOCK_OUT critical for stock
\* 0, LOW_STOCK high for 0 < stock < 10, LOW_STOCK medium for 10 <= stock < 20;
\* and gives a medicine with stock 20 or more none.
C15_LowStockRule ==
    /\ LowStockRule(medicines, batches, alerts,
                    check_low_stock_result(medicines, batches, alerts,
                                           session_autoflush))
    /\ \A file \in Files :
          LET r == upload_result(medicines, batches, transactions, alerts, file,
                                 today, session_autoflush)
          IN r.status = 200 =>
                 LowStockRule(r.medicines, r.batches,
                              check_expiry_alerts(r.batches, alerts,
                                                  session_autoflush, today),
                              r.alerts)

C17_OnlyAcknowledge ==
    [][/\ Len(alerts') >= Len(alerts)
       /\ \A i \in DOMAIN alerts :
              /\ alerts'[i].alert_type = alerts[i].alert_type
              /\ alerts'[i].medicine_id = alerts[i].medicine_id
              /\ alerts'[i].batch_id = alerts[i].batch_id
              /\ alerts'[i].severity = alerts[i].severity
              /\ alerts'[i].is_acknowledged # alerts[i].is_acknowledged =>
                     /\ ~alerts[i].is_acknowledged
                     /\ alerts'[i].is_acknowledged
                     /\ \E current_user \in Users :
                            acknowledge_alert(i, current_user)]_vars

\* a low-stock alert is still open although the stock of its medicine is back
\* at the threshold or above
C17_Witness ==
    \E a \in DOMAIN alerts :
        /\ alerts[a].alert_type = "low_stock"
        /\ ~alerts[a].is_acknowledged
        /\ total_quantity(batches, alerts[a].medicine_id) >= LOW_STOCK_THRESHOLD

\* C18: acknowledge_alert on an alert that is already acknowledged leaves its
\* acknowledged_by and acknowledged_at as the first acknowledgement set them.
C18_AcknowledgedOnce ==
    [][\A i \in DOMAIN alerts : alerts[i].is_acknowledged =>
           /\ alerts'[i].acknowledged_by = alerts[i].acknowledged_by
           /\ alerts'[i].acknowledged_at = alerts[i].acknowledged_at]_vars

\* C19: in every reachable state the stock figure of the low-stock sweep, of
\* the forecast and of the stock-levels listing is, for every medicine, the sum
\* of quantity over its batches with quantity > 0 that are not flagged expired;
\* a further batch with quantity 0, or flagged expired, changes none of them.
C19_StockFigure ==
    \A m \in DOMAIN medicines :
        LET raw == total_quantity(batches, m)
        IN /\ total_stock(batches, m) = raw
           /\ current_stock(batches, m) = raw
           /\ get_stock_levels(medicines, batches)[m] = raw
           /\ \A extra \in {Batch(m, NumBatchNos + 1, 0, 45, FALSE),
                              Batch(m, NumBatchNos + 1, 15, 0, TRUE)} :
                  LET bs == Append(batches, extra)
                  IN /\ total_stock(bs, m) = raw
                     /\ current_stock(bs, m) = raw
                     /\ get_stock_levels(medicines, bs)[m] = raw

\* C20: every list the FEFO query may return for a medicine holds exactly its
\* batches with quantity > 0 that are not flagged expired, in ascending order
\* of expiry date and, for equal dates, in the order the batches were created;
\* an in-stock answer recommends the first batch of such a list.
C20_FefoOrder ==
    \A m \in DOMAIN medicines :
        /\ \A list \in order_by_expiry_date(batches, active_batches(batches, m)) :
               /\ {list[i] : i \in DOMAIN list} = active_batches(batches, m)
               /\ \A i, j \in DOMAIN list : i < j =>
                      \/ batches[list[i]].expiry_date
                             < batches[list[j]].expiry_date
                      \/ /\ batches[list[i]].expiry_date
                                = batches[list[j]].expiry_date
                         /\ list[i] < list[j]
        /\ \A answer \in inventory_answers(batches, m) :
               answer.in_stock =>
                   \E list \in order_by_expiry_date(
                                   batches, active_batches(batches, m)) :
                       answer.dispense_batch = list[1]

\* the forecast of a medicine at the default horizon, in the current state
ForecastOf(m) ==
    calculate_demand_forecast(medicines, batches, transactions, m,
                              DEFAULT_HORIZON_DAYS, today)

\* C21: for a medicine with no OUT row in the last 90 days the forecast has
\* confidence 0.3, demand 30% of the raw stock (the quantities of its
\* non-expired batches), reorder point max(10, trunc(20% of it)) and
\* recommended quantity max(20, trunc(50% of it)); with no batch at all that
\* is demand 0, confidence 0.3, reorder point 10, recommended quantity 20.
C21_NoHistoryForecast ==
    \A m \in DOMAIN medicines :
        out_transactions(transactions, m, today) = {} =>
            LET trunc(a, b) == IF a >= 0 THEN a \div b ELSE -((-a) \div b)
                raw == current_stock(batches, m)
                none == calculate_demand_forecast(
                            medicines, <<>>, transactions, m,
                            DEFAULT_HORIZON_DAYS, today)
            IN /\ ForecastOf(m).confidence_score = 30
               /\ ForecastOf(m).forecasted_demand = 30 * raw
               /\ ForecastOf(m).reorder_point = Max(10, trunc(raw * 20, 100))
               /\ ForecastOf(m).recommended_quantity
                      = Max(20, trunc(raw * 50, 100))
               /\ none.forecasted_demand = 0 /\ none.confidence_score = 30
               /\ none.reorder_point = 10 /\ none.recommended_quantity = 20

\* a medicine without history and with 59 units was forecast: 20% and 50% of
\* the stock are above the floors and are truncated
C21_Witness ==
    \E i \in DOMAIN forecasts :
        /\ out_transactions(transactions, forecasts[i].medicine_id, today) = {}
        /\ current_stock(batches, forecasts[i].medicine_id) = 59
        /\ forecasts[i].forecasted_demand = 1770
        /\ forecasts[i].reorder_point = 11
        /\ forecasts[i].recommended_quantity = 29

\* C22: for a medicine with an OUT row in the last 90 days the returned
\* reorder point is trunc(average daily demand x 7 x 1.5), at least 1, and the
\* returned recommended quantity is the larger of trunc(30% of the forecasted
\* demand) and (returned reorder point - stock, when the stock is below the
\* returned reorder point, else 0), at least 0.
C22_HistoryForecast ==
    \A m \in DOMAIN medicines :
        LET history == out_transactions(transactions, m, today)
            total_demand == total_demand_from(transactions, history, 1)
            stock == current_stock(batches, m)
            r == ForecastOf(m)
        IN history # {} =>
               /\ r.reorder_point
                      = Max(1, trunc_div(total_demand * 7 * 15, LOOKBACK_DAYS * 10))
               /\ r.recommended_quantity
                      = Max(0, Max(trunc_div(total_demand * DEFAULT_HORIZON_DAYS * 30,
                                             LOOKBACK_DAYS * 100),
                                   IF stock < r.reorder_point
                                   THEN r.reorder_point - stock ELSE 0))

\* C23: of two medicines with the same stock, the one with at least as many
\* OUT rows in the last 90 days (none against some included) has at least the
\* confidence of the other; no confidence is above 0.95.
C23_ConfidenceMonotone ==
    \A m1, m2 \in DOMAIN medicines :
        /\ ForecastOf(m1).confidence_score <= 95
        /\ (/\ current_stock(batches, m1) = current_stock(batches, m2)
            /\ Cardinality(out_transactions(transactions, m1, today))
                   <= Cardinality(out_transactions(transactions, m2, today)))
               => ForecastOf(m1).confidence_score
                      <= ForecastOf(m2).confidence_score

\* two medicines with the same stock were forecast: the one without history
\* at 0.3, the one with 46 OUT rows at the cap
C23_Witness ==
    /\ Len(forecasts) = 2
    /\ current_stock(batches, 1) = current_stock(batches, 2)
    /\ forecasts[1].medicine_id = 1 /\ forecasts[1].confidence_score = 30
    /\ forecasts[2].medicine_id = 2 /\ forecasts[2].confidence_score = 95
    /\ Cardinality(out_transactions(transactions, 2, today)) = MaxHistory

\* C24: a forecast run (get_forecast, reorder suggestions, batch forecast)
\* leaves medicines, batches, log and alerts unchanged and leaves every earlier
\* Forecast row in place; get_forecast adds one row for its medicine, the
\* batch forecast one row for every active medicine, the suggestions none.
C24_ForecastFrame ==
    [][/\ UNCHANGED <<medicines, batches, transactions, alerts>>
       /\ IsPrefix(forecasts, forecasts')
       /\ \A m \in DOMAIN medicines :
              get_forecast(m, DEFAULT_HORIZON_DAYS) =>
                  /\ Len(forecasts') = Len(forecasts) + 1
                  /\ forecasts'[Len(forecasts')].medicine_id = m
       /\ generate_batch_forecast =>
              \A m \in DOMAIN medicines :
                  Cardinality({i \in DOMAIN forecasts' :
                                  /\ i > Len(forecasts)
                                  /\ forecasts'[i].medicine_id = m})
                      = IF medicines[m].is_active THEN 1 ELSE 0
       /\ (\E critical_only \in BOOLEAN :
               get_reorder_suggestions(critical_only)) =>
              forecasts' = forecasts]_vars

\* two runs for one medicine left two rows
C24_Witness ==
    /\ Len(forecasts) = 2
    /\ forecasts[1].medicine_id = forecasts[2].medicine_id

PriorityRank(p) == CHOOSE i \in DOMAIN priority_order : priority_order[i] = p

\* what a list of reorder suggestions has to be
ReorderSuggestions(list, critical_only) ==
    /\ \A i \in DOMAIN list :
           LET e == list[i]
           IN /\ e.medicine_id \in DOMAIN medicines
              /\ e.current_stock = current_stock(batches, e.medicine_id)
              /\ e.forecasted_demand
                     = ForecastOf(e.medicine_id).forecasted_demand
              /\ e.reorder_point = ForecastOf(e.medicine_id).reorder_point
              /\ e.recommended_quantity
                     = ForecastOf(e.medicine_id).recommended_quantity
              /\ e.priority =
                     IF e.current_stock = 0 /\ e.forecasted_demand > 0
                     THEN "critical"
                     ELSE IF e.current_stock < e.reorder_point THEN "low_stock"
                     ELSE IF e.current_stock < e.recommended_quantity
                     THEN "at_risk"
                     ELSE "healthy"
              /\ critical_only => e.priority \in {"critical", "low_stock"}
    /\ \A i, j \in DOMAIN list :
           i < j => /\ PriorityRank(list[i].priority)
                          <= PriorityRank(list[j].priority)
                    /\ list[i].medicine_id # list[j].medicine_id
    /\ ~critical_only =>
           {list[i].medicine_id : i \in DOMAIN list}
               = {m \in DOMAIN medicines : medicines[m].is_active}

\* C25: every reorder suggestion is critical if its stock is 0 and its
\* forecasted demand is above 0, else low_stock if the stock is below the
\* reorder point, else at_risk if it is below the recommended quantity, else
\* healthy; the list is in the order critical, low_stock, at_risk, healthy and
\* with critical_only holds critical and low_stock entries only.
C25_ReorderPriority ==
    \A critical_only \in BOOLEAN :
        ReorderSuggestions(
            get_reorder_suggestions_result(medicines, batches, transactions,
                                           today, critical_only),
            critical_only)

\* the answer lists medicine 2, critical, before medicine 1, which is not
C25_Witness ==
    /\ response # NoResponse
    /\ DOMAIN response = {"critical_only", "suggestions"}
    /\ Len(response.suggestions) = 2
    /\ response.suggestions[1].medicine_id = 2
    /\ response.suggestions[1].priority = "critical"
    /\ response.suggestions[2].priority = "healthy"

\* C26: the total waste value is the expired, damaged and recalled values
\* added up, each the sum of quantity x price over the batches of the window
\* carrying that flag, the returned value left out; the wastage rate (to two
\* decimals) is 100 x total / value of the batches that are not expired,
\* damaged or recalled, and 0 when that value is 0.
C26_WasteAnalytics ==
    LET w == window(NaT, NaT, today)
        r == get_waste_analytics_result(medicines, batches,
                                        w.start_date, w.end_date)
        in_window(d) == d >= today - WASTE_WINDOW_DAYS /\ d <= today
        value(ids) == value_from(medicines, batches, ids, 1)
        expired == value({i \in DOMAIN batches :
                             /\ batches[i].is_expired
                             /\ in_window(batches[i].expiry_date)})
        damaged == value({i \in DOMAIN batches :
                             /\ batches[i].is_damaged
                             /\ in_window(batches[i].updated_at)})
        recalled == value({i \in DOMAIN batches :
                              /\ batches[i].is_recalled
                              /\ in_window(batches[i].updated_at)})
        sellable == value({i \in DOMAIN batches :
                              /\ ~batches[i].is_expired
                              /\ ~batches[i].is_damaged
                              /\ ~batches[i].is_recalled})
    IN /\ r.expired.value = expired
       /\ r.damaged.value = damaged
       /\ r.recalled.value = recalled
       /\ r.total.value = expired + damaged + recalled
       /\ r.total.wastage_rate_percent
              = IF sellable = 0 THEN 0
                ELSE (20000 * (expired + damaged + recalled) + sellable)
                         \div (2 * sellable)

\* C27: two overlapping OUT requests on one batch end as if run one after the
\* other: the quantity is never below 0, and once both are done it is the
\* initial quantity minus the quantities of the requests that succeeded, and
\* both succeeded only if their quantities together fit the initial quantity.
C27_SerialOutcome ==
    LET initial == transactions[1].quantity
        taken(r) == IF sessions[r].status = 200 THEN sessions[r].quantity ELSE 0
    IN /\ batches[1].quantity >= 0
       /\ (\A r \in DOMAIN sessions : sessions[r].pc = "done") =>
              /\ batches[1].quantity = initial - taken(1) - taken(2)
              /\ (sessions[1].status = 200 /\ sessions[2].status = 200) =>
                     sessions[1].quantity + sessions[2].quantity <= initial

\* C28: no two Batch rows have the same medicine and the same batch number,
\* whatever the order in which the steps of the uploads are taken.
C28_BatchNumberUnique ==
    \A i, j \in DOMAIN batches :
        (/\ batches[i].medicine_id = batches[j].medicine_id
         /\ batches[i].batch_number = batches[j].batch_number) => i = j

\* the transactions of a batch added up: IN and ADJUSTMENT as recorded, OUT,
\* DAMAGED, EXPIRED and RECALLED subtracted
RECURSIVE SignedSum(_, _, _)
SignedSum(txns, batch_id, i) ==
    IF i > Len(txns) THEN 0
    ELSE (IF txns[i].batch_id # batch_id THEN 0
          ELSE IF txns[i].transaction_type \in {"in", "adjustment"}
          THEN txns[i].quantity
          ELSE IF txns[i].transaction_type
                      \in {"out", "damaged", "expired", "recalled"}
          THEN -txns[i].quantity
          ELSE 0)
         + SignedSum(txns, batch_id, i + 1)

\* C29: in every reachable state the quantity of each batch is the signed sum
\* of the transactions that reference it, so marking a batch of q units
\* expired logs an EXPIRED row of q.
C29_LedgerReconciles ==
    \A b \in DOMAIN batches :
        batches[b].quantity = SignedSum(transactions, b, 1)

\* C30: every transaction that references a batch carries the medicine that
\* owns the batch.
C30_TransactionOwner ==
    \A i \in DOMAIN transactions :
        transactions[i].batch_id \in DOMAIN batches =>
            transactions[i].medicine_id
                = batches[transactions[i].batch_id].medicine_id

====
